---- MODULE Spec2Model ----
(***************************************************************************)
(* Model of the table-profiling HTTP handler of src/index.py: one GET      *)
(* request handled by handler.do_GET, the identifier validator, the        *)
(* database session it opens, the queries it issues and the response it    *)
(* writes.  Strings are tuples of one-character strings, so that the       *)
(* identifier grammar, the split on "." and the data-type classification   *)
(* are computed on the characters as the code computes them.               *)
(***************************************************************************)
EXTENDS Integers, Sequences, FiniteSets

VARIABLES
    pc,          \* position of do_GET
    route,       \* which branch of do_GET the path selects
    sch,         \* local sch (after the split)
    tab,         \* local tab (after the split)
    col,         \* local col (histogram)
    num,         \* local buckets (histogram) or limit (preview)
    validated,   \* names _sanitize_ident has returned in this request
    session,     \* the psycopg connection: "none", "open", "closed"
    opened,      \* number of connections opened by this request
    queries,     \* statements passed to cur.execute, in order
    cols,        \* local cols: result of _get_columns
    rows,        \* the table's rows as the database holds them
    counts,      \* local counts: result of _table_row_counts_and_dupes
    i,           \* index of the column the summary loop is at
    entry,       \* local entry of the summary loop
    failed,      \* columns whose numeric-statistics query raised
    col_metrics, \* local col_metrics
    data,        \* local data (histogram), tables (tables), rows (preview)
    exc,         \* the exception caught by do_GET's except clause
    status,      \* HTTP status written, 0 while no response is written
    body,        \* JSON payload written
    openAtWrite  \* whether the session was open when the response was written

vars == << pc, route, sch, tab, col, num, validated, session, opened, queries,
           cols, rows, counts, i, entry, failed, col_metrics, data, exc,
           status, body, openAtWrite >>

\* SQL NULL / Python None among cell values, which are naturals
NULL == 0 - 1
\* an exception: its class, its message, the name the message quotes and,
\* for an error of the database, the statement that raised it
NoExc == [type |-> "none", msg |-> "", arg |-> << >>, stmt |-> ""]

----------------------------------------------------------------------------
(* Bounds of the model *)

MaxIdentLen == 3
MaxCols == 2
MaxRows == 2
MaxHistRows == 3
MaxBuckets == 3

----------------------------------------------------------------------------
(* Characters and strings *)

LowerLetters ==
    {"a","b","c","d","e","f","g","h","i","j","k","l","m",
     "n","o","p","q","r","s","t","u","v","w","x","y","z"}
UpperLetters ==
    {"A","B","C","D","E","F","G","H","I","J","K","L","M",
     "N","O","P","Q","R","S","T","U","V","W","X","Y","Z"}
Digits == {"0","1","2","3","4","5","6","7","8","9"}

\* characters requests are built from
Alphabet == {"a", "_", "1", ".", ";", "'", "\n"}

StringsUpTo(n) == UNION {[1..k -> Alphabet] : k \in 0..n}

Public == <<"p","u","b","l","i","c">>

\* _IDENT_RE: ^[A-Za-z_][A-Za-z0-9_]*$ under re.match; in Python "$" matches
\* at the end of the string and also just before a newline that ends it.
StartChars == LowerLetters \cup UpperLetters \cup {"_"}
ContChars == StartChars \cup Digits

IdentReMatch(name) ==
    LET n == Len(name)
        m == IF n > 0 /\ name[n] = "\n" THEN n - 1 ELSE n
    IN  /\ m >= 1
        /\ name[1] \in StartChars
        /\ \A k \in 2..m : name[k] \in ContChars

\* _sanitize_ident: the exception it raises, or NoExc when it returns name
SanitizeIdent(name) ==
    IF name = << >>
      THEN [type |-> "ValueError", msg |-> "Empty identifier", arg |-> << >>,
            stmt |-> ""]
      ELSE IF ~IdentReMatch(name)
        THEN [type |-> "ValueError", msg |-> "Invalid identifier", arg |-> name,
              stmt |-> ""]
        ELSE NoExc

\* tbl.split(".", 1) when "." is in tbl, else ("public", tbl or "")
HasDot(tbl) == \E k \in 1..Len(tbl) : tbl[k] = "."
FirstDot(tbl) == CHOOSE k \in 1..Len(tbl) :
                    tbl[k] = "." /\ \A j \in 1..(k-1) : tbl[j] # "."
SplitTable(tbl) ==
    IF HasDot(tbl)
      THEN << SubSeq(tbl, 1, FirstDot(tbl) - 1),
              SubSeq(tbl, FirstDot(tbl) + 1, Len(tbl)) >>
      ELSE << Public, tbl >>

\* f"{sch}.{tab}"
Qualified(s, t) == s \o <<".">> \o t

----------------------------------------------------------------------------
(* Data types and the numeric classification of the summary loop *)

Alpha == <<"a","b","c","d","e","f","g","h","i","j","k","l","m",
           "n","o","p","q","r","s","t","u","v","w","x","y","z">>
ALPHA == <<"A","B","C","D","E","F","G","H","I","J","K","L","M",
           "N","O","P","Q","R","S","T","U","V","W","X","Y","Z">>

\* str.lower() on one character
LowerChar(c) ==
    IF c \in UpperLetters
      THEN Alpha[CHOOSE k \in 1..Len(ALPHA) : ALPHA[k] = c]
      ELSE c
Lower(s) == [k \in 1..Len(s) |-> LowerChar(s[k])]

\* x in s, for strings
Contains(s, x) ==
    \E k \in 0..(Len(s) - Len(x)) : SubSeq(s, k + 1, k + Len(x)) = x

NumericTriggers ==
    { <<"i","n","t","e","g","e","r">>,
      <<"n","u","m","e","r","i","c">>,
      <<"d","o","u","b","l","e">>,
      <<"r","e","a","l">>,
      <<"b","i","g","i","n","t">>,
      <<"s","m","a","l","l","i","n","t">>,
      <<"d","e","c","i","m","a","l">> }

\* variant: the classification without .lower()
IsNumericType_CaseSensitive(dtype) == \E x \in NumericTriggers : Contains(dtype, x)

\* any(x in (dtype or "").lower() for x in [...]); the catalog reports a
\* data type for every column, so dtype is a string
IsNumericType(dtype) == \E x \in NumericTriggers : Contains(Lower(dtype), x)

TyInteger == <<"i","n","t","e","g","e","r">>
TyText == <<"t","e","x","t">>
TyDouble == <<"D","o","u","b","l","e"," ","p","r","e","c","i","s","i","o","n">>

----------------------------------------------------------------------------
(* The database: what the statements of src/index.py compute on a table   *)
(* whose rows are tuples of cells, a cell being a natural or NULL          *)

Cells == {NULL, 1}
HistCells == {NULL, 1, 2, 4}

RECURSIVE Gcd(_, _)
Gcd(a, b) == IF b = 0 THEN a ELSE Gcd(b, a % b)

\* float(a) / float(b), kept exact as a fraction in lowest terms
FloatDiv(a, b) == << a \div Gcd(a, b), b \div Gcd(a, b) >>
FloatZero == << 0, 1 >>

\* COUNT(*) FILTER (WHERE "col" IS NULL)
ColumnNullCount(rs, k) == Cardinality({r \in 1..Len(rs) : rs[r][k] = NULL})

\* COUNT(DISTINCT "col"): an aggregate over the non-null values
ColumnUniqueCount(rs, k) == Cardinality({rs[r][k] : r \in 1..Len(rs)} \ {NULL})

\* COUNT(DISTINCT (col_list)): with one column the parentheses hold a scalar
\* and nulls are skipped; with several they hold a row value, which is
\* counted also when all its fields are null
DistinctRowCount(rs, ncols) ==
    IF ncols = 1
      THEN ColumnUniqueCount(rs, 1)
      ELSE Cardinality({rs[r] : r \in 1..Len(rs)})

\* variant: the share given in percent
DuplicatePct_Percent(total, dupes) ==
    IF total # 0 THEN FloatDiv(100 * dupes, total) ELSE FloatZero

\* pct = float(dupes) / float(total) if total else 0.0
DuplicatePct(total, dupes) ==
    IF total # 0 THEN FloatDiv(dupes, total) ELSE FloatZero

\* _table_row_counts_and_dupes
TableRowCountsAndDupes(rs, ncols) ==
    LET total == Len(rs)
        dupes == Len(rs) - DistinctRowCount(rs, ncols)
    IN  [total_rows |-> total,
         duplicate_rows |-> dupes,
         duplicate_pct |-> DuplicatePct(total, dupes)]

NonNull(rs, k) == {r \in 1..Len(rs) : rs[r][k] # NULL}
ColMin(rs, k) ==
    IF NonNull(rs, k) = {} THEN NULL
    ELSE CHOOSE v \in {rs[r][k] : r \in NonNull(rs, k)} :
            \A r \in NonNull(rs, k) : v <= rs[r][k]
ColMax(rs, k) ==
    IF NonNull(rs, k) = {} THEN NULL
    ELSE CHOOSE v \in {rs[r][k] : r \in NonNull(rs, k)} :
            \A r \in NonNull(rs, k) : v >= rs[r][k]

\* _numeric_stats: the count and the extremes of the non-null values (the
\* mean, deviation and percentiles of the same row are not modelled)
NumericStats(rs, k) ==
    [n |-> Cardinality(NonNull(rs, k)), min |-> ColMin(rs, k), max |-> ColMax(rs, k)]

\* width_bucket(operand, low, high, count) for low < high and count > 0:
\* 0 below low, count + 1 at or above high, else the equal-width bucket
WidthBucket(v, low, high, count) ==
    IF v < low THEN 0
    ELSE IF v >= high THEN count + 1
    ELSE ((v - low) * count) \div (high - low) + 1

\* width_bucket raises when count <= 0 or low = high; it is evaluated only
\* if the column has a non-null value
HistogramRaises(rs, buckets) ==
    /\ NonNull(rs, 1) # {}
    /\ (buckets <= 0 \/ ColMin(rs, 1) = ColMax(rs, 1))

RECURSIVE SortedSeq(_)
SortedSeq(S) ==
    IF S = {} THEN << >>
    ELSE LET m == CHOOSE x \in S : \A y \in S : x <= y
         IN  <<m>> \o SortedSeq(S \ {m})

\* float(r[2]) if r[2] is not None else None
FloatOrNone(x) == IF x = NULL THEN NULL ELSE x

\* variant: one entry for every bucket, the empty ones included
Histogram_DenseFill(rs, buckets) ==
    LET mn == ColMin(rs, 1)
        mx == ColMax(rs, 1)
        bkt(r) == WidthBucket(rs[r][1], mn, mx, buckets)
    IN  IF NonNull(rs, 1) = {} THEN << >>
        ELSE [j \in 1..(buckets + 1) |->
                [bucket |-> j,
                 count |-> Cardinality({r \in NonNull(rs, 1) : bkt(r) = j}),
                 min |-> FloatOrNone(mn),
                 max |-> FloatOrNone(mx)]]

\* _histogram: GROUP BY bkt, mn, mx ORDER BY bkt over the non-null values
Histogram(rs, buckets) ==
    LET mn == ColMin(rs, 1)
        mx == ColMax(rs, 1)
        bkt(r) == WidthBucket(rs[r][1], mn, mx, buckets)
        bkts == SortedSeq({bkt(r) : r \in NonNull(rs, 1)})
    IN  [j \in 1..Len(bkts) |->
            [bucket |-> bkts[j],
             count |-> Cardinality({r \in NonNull(rs, 1) : bkt(r) = bkts[j]}),
             min |-> FloatOrNone(mn),
             max |-> FloatOrNone(mx)]]

----------------------------------------------------------------------------
(* What a request may carry and what the database may hold *)

DefaultBuckets == 20
DefaultLimit == 10

\* a numeric query parameter: absent, not an integer literal, or an integer
NumArgs(max) ==
    {[kind |-> "absent", val |-> 0], [kind |-> "bad", val |-> 0]}
    \cup {[kind |-> "int", val |-> n] : n \in (0 - 1)..max}

\* int((qs.get(key) or [default])[0])
IntRaises(arg) == arg.kind = "bad"
IntOf(arg, default) == IF arg.kind = "absent" THEN default ELSE arg.val

\* column names a catalog may report, in the order they may appear; the last
\* is a legal quoted SQL name that is no bare identifier
CatalogNames == << <<"i","d">>, <<"n">>, <<"a"," ","b">> >>
DataTypes == {TyInteger, TyText, TyDouble}

NamePos(nm) == CHOOSE k \in 1..Len(CatalogNames) : CatalogNames[k] = nm

ColumnLists(maxCols) ==
    { c \in UNION {[1..k -> [name : {CatalogNames[k2] : k2 \in 1..Len(CatalogNames)},
                              data_type : DataTypes]] : k \in 0..maxCols} :
        \A k \in 1..(Len(c) - 1) : NamePos(c[k].name) < NamePos(c[k+1].name) }

RowLists(ncols, maxRows, cells) ==
    UNION {[1..k -> [1..ncols -> cells]] : k \in 0..maxRows}

\* a table is a multiset of rows and no statement of the summary depends on
\* their order: each multiset is listed once, in lexicographic order
RowLeq(a, b) ==
    \/ a = b
    \/ \E k \in 1..Len(a) : a[k] < b[k] /\ \A j \in 1..(k-1) : a[j] = b[j]
RowBags(ncols, maxRows, cells) ==
    { rs \in RowLists(ncols, maxRows, cells) :
        \A k \in 1..(Len(rs) - 1) : RowLeq(rs[k], rs[k+1]) }

\* a table as the database holds it: its catalog columns and its rows; a
\* table the catalog does not know has no columns
TablesOf(maxCols, maxRows) ==
    UNION { { [cols |-> c, rows |-> rs] :
                rs \in IF c = << >> THEN {<< >>}
                       ELSE RowBags(Len(c), maxRows, Cells) } :
            c \in ColumnLists(maxCols) }

\* the requests and tables of the profiling runs
RequestTables == { << >>, <<"t">>, <<"s",".","t">>, <<"1","t">> }
RequestColumns == { << >>, <<"c">>, <<"c",";">> }
ProfiledTables == TablesOf(MaxCols, MaxRows)
HistColumns == RowLists(1, MaxHistRows, HistCells)
PreviewRows == RowLists(1, MaxRows, Cells)

\* the requests and tables of the validation runs
AnyName == StringsUpTo(MaxIdentLen)
FewArgs == {[kind |-> "absent", val |-> 0], [kind |-> "bad", val |-> 0]}
FewTables ==
    { [cols |-> << >>, rows |-> << >>],
      [cols |-> << [name |-> <<"i","d">>, data_type |-> TyInteger] >>,
       rows |-> << <<1>> >>] }
FewColumns == { << <<1>>, <<2>> >> }

----------------------------------------------------------------------------
(* handler.do_GET *)

Routes == {"health", "tables", "summary", "histogram", "preview", "other"}

NoCounts == [total_rows |-> 0, duplicate_rows |-> 0, duplicate_pct |-> FloatZero]
NoEntry == [name |-> << >>]
NoBody == [none |-> TRUE]

DatabaseError(stmt) ==
    [type |-> "DatabaseError", msg |-> "query failed", arg |-> << >>, stmt |-> stmt]
ConnectError ==
    [type |-> "RuntimeError", msg |-> "no connection", arg |-> << >>, stmt |-> ""]
IntError ==
    [type |-> "ValueError", msg |-> "invalid literal for int()", arg |-> << >>,
     stmt |-> ""]

Init ==
    /\ pc = "idle"
    /\ route = "none"
    /\ sch = << >> /\ tab = << >> /\ col = << >> /\ num = 0
    /\ validated = {}
    /\ session = "none" /\ opened = 0 /\ queries = << >>
    /\ cols = << >> /\ rows = << >> /\ counts = NoCounts
    /\ i = 0 /\ entry = NoEntry /\ failed = {} /\ col_metrics = << >>
    /\ data = << >>
    /\ exc = NoExc
    /\ status = 0 /\ body = NoBody /\ openAtWrite = FALSE

\* self._write_json(payload, status)
WriteJson(st, payload) ==
    /\ status' = st
    /\ body' = payload
    /\ openAtWrite' = (session = "open")

\* variant: the connection is not closed when an exception leaves the block
Raise_NoClose(e) ==
    /\ pc' = "except"
    /\ exc' = e
    /\ session' = session
    /\ sch' = << >> /\ tab' = << >> /\ col' = << >> /\ num' = 0
    /\ cols' = << >> /\ rows' = << >> /\ counts' = NoCounts
    /\ i' = 0 /\ entry' = NoEntry /\ col_metrics' = << >>
    /\ data' = << >>
    /\ UNCHANGED << route, validated, opened, status, body, openAtWrite >>

\* an exception leaves the try block: a with block it passes closes the
\* connection; the except clause reads e alone, the other locals are dead
Raise(e) ==
    /\ pc' = "except"
    /\ exc' = e
    /\ session' = IF session = "open" THEN "closed" ELSE session
    /\ sch' = << >> /\ tab' = << >> /\ col' = << >> /\ num' = 0
    /\ cols' = << >> /\ rows' = << >> /\ counts' = NoCounts
    /\ i' = 0 /\ entry' = NoEntry /\ col_metrics' = << >>
    /\ data' = << >>
    /\ UNCHANGED << route, validated, opened, status, body, openAtWrite >>

Execute(stmt, idents) == queries' = Append(queries, [stmt |-> stmt, idents |-> idents])

\* lines 138-140: the path selects a branch
Request ==
    /\ pc = "idle"
    /\ \E r \in Routes : route' = r
    /\ pc' = "route"
    /\ UNCHANGED << sch, tab, col, num, validated, session, opened, queries,
                    cols, rows, counts, i, entry, failed, col_metrics, data,
                    exc, status, body, openAtWrite >>

Health ==
    /\ pc = "route" /\ route = "health"
    /\ WriteJson(200, [ok |-> TRUE])
    /\ pc' = "done"
    /\ UNCHANGED << route, sch, tab, col, num, validated, session, opened,
                    queries, cols, rows, counts, i, entry, failed, col_metrics,
                    data, exc >>

UnknownPath ==
    /\ pc = "route" /\ route = "other"
    /\ WriteJson(404, [error |-> <<"N","o","t"," ","f","o","u","n","d">>])
    /\ pc' = "done"
    /\ UNCHANGED << route, sch, tab, col, num, validated, session, opened,
                    queries, cols, rows, counts, i, entry, failed, col_metrics,
                    data, exc >>

\* lines 151-157
ParseSummary(tbls) ==
    /\ pc = "route" /\ route = "summary"
    /\ \E tbl \in tbls :
         LET p == SplitTable(tbl) IN
         IF SanitizeIdent(p[1]) # NoExc THEN
            Raise(SanitizeIdent(p[1])) /\ UNCHANGED << queries, failed >>
         ELSE IF SanitizeIdent(p[2]) # NoExc THEN
            Raise(SanitizeIdent(p[2])) /\ UNCHANGED << queries, failed >>
         ELSE
            /\ sch' = p[1] /\ tab' = p[2]
            /\ validated' = {p[1], p[2]}
            /\ pc' = "connect"
            /\ UNCHANGED << route, col, num, session, opened, queries, cols,
                            rows, counts, i, entry, failed, col_metrics, data,
                            exc, status, body, openAtWrite >>

\* lines 178-185: int() of the buckets parameter comes first, then the
\* three names are validated in the order schema, table, column
ParseHistogram(tbls, colnames, args) ==
    /\ pc = "route" /\ route = "histogram"
    /\ \E arg \in args :
         IF IntRaises(arg) THEN
            Raise(IntError) /\ UNCHANGED << queries, failed >>
         ELSE \E tbl \in tbls :
            LET p == SplitTable(tbl) IN
            IF SanitizeIdent(p[1]) # NoExc THEN
               Raise(SanitizeIdent(p[1])) /\ UNCHANGED << queries, failed >>
            ELSE IF SanitizeIdent(p[2]) # NoExc THEN
               Raise(SanitizeIdent(p[2])) /\ UNCHANGED << queries, failed >>
            ELSE \E c \in colnames :
               IF SanitizeIdent(c) # NoExc THEN
                  Raise(SanitizeIdent(c)) /\ UNCHANGED << queries, failed >>
               ELSE
                  /\ sch' = p[1] /\ tab' = p[2] /\ col' = c
                  /\ num' = IntOf(arg, DefaultBuckets)
                  /\ validated' = {p[1], p[2], c}
                  /\ pc' = "connect"
                  /\ UNCHANGED << route, session, opened, queries, cols, rows,
                                  counts, i, entry, failed, col_metrics, data,
                                  exc, status, body, openAtWrite >>

\* lines 191-197
ParsePreview(tbls, args) ==
    /\ pc = "route" /\ route = "preview"
    /\ \E arg \in args :
         IF IntRaises(arg) THEN
            Raise(IntError) /\ UNCHANGED << queries, failed >>
         ELSE \E tbl \in tbls :
            LET p == SplitTable(tbl) IN
            IF SanitizeIdent(p[1]) # NoExc THEN
               Raise(SanitizeIdent(p[1])) /\ UNCHANGED << queries, failed >>
            ELSE IF SanitizeIdent(p[2]) # NoExc THEN
               Raise(SanitizeIdent(p[2])) /\ UNCHANGED << queries, failed >>
            ELSE
               /\ sch' = p[1] /\ tab' = p[2]
               /\ num' = IntOf(arg, DefaultLimit)
               /\ validated' = {p[1], p[2]}
               /\ pc' = "connect"
               /\ UNCHANGED << route, col, session, opened, queries, cols,
                               rows, counts, i, entry, failed, col_metrics,
                               data, exc, status, body, openAtWrite >>

\* with _connect() as conn, conn.cursor() as cur: entering the block
Connect ==
    /\ \/ pc = "connect"
       \/ pc = "route" /\ route = "tables"
    /\ \/ /\ session' = "open"
          /\ opened' = opened + 1
          /\ pc' = "query"
          /\ UNCHANGED << route, sch, tab, col, num, validated, queries, cols,
                          rows, counts, i, entry, failed, col_metrics, data,
                          exc, status, body, openAtWrite >>
       \/ Raise(ConnectError) /\ UNCHANGED << queries, failed >>

\* leaving the with block at its end: the connection is closed
ExitWith ==
    /\ pc = "exit"
    /\ session' = "closed"
    /\ pc' = "write"
    /\ UNCHANGED << route, sch, tab, col, num, validated, opened, queries,
                    cols, rows, counts, i, entry, failed, col_metrics, data,
                    exc, status, body, openAtWrite >>

\* lines 146-147
ListTables ==
    /\ pc = "query" /\ route = "tables"
    /\ Execute("list_tables", << >>)
    /\ \/ /\ \E t \in {<< >>, << [schema |-> Public, table |-> <<"t">>] >>} :
               data' = t
          /\ pc' = "exit"
          /\ UNCHANGED << route, sch, tab, col, num, validated, session,
                          opened, cols, rows, counts, i, entry, failed,
                          col_metrics, exc, status, body, openAtWrite >>
       \/ Raise(DatabaseError("list_tables")) /\ UNCHANGED failed

\* variant: no test for an empty column list
GetColumns_NoCheck(tables) ==
    /\ pc = "query" /\ route = "summary"
    /\ Execute("get_columns", << >>)
    /\ \/ /\ \E t \in tables : cols' = t.cols /\ rows' = t.rows
          /\ pc' = "rowstats"
          /\ UNCHANGED << route, sch, tab, col, num, validated, session,
                          opened, counts, i, entry, failed, col_metrics, data,
                          exc, status, body, openAtWrite >>
       \/ Raise(DatabaseError("get_columns")) /\ UNCHANGED failed

\* line 159, and the test of line 160
GetColumns(tables) ==
    /\ pc = "query" /\ route = "summary"
    /\ Execute("get_columns", << >>)
    /\ \/ /\ \E t \in tables : cols' = t.cols /\ rows' = t.rows
          /\ pc' = IF cols' = << >> THEN "notfound" ELSE "rowstats"
          /\ UNCHANGED << route, sch, tab, col, num, validated, session,
                          opened, counts, i, entry, failed, col_metrics, data,
                          exc, status, body, openAtWrite >>
       \/ Raise(DatabaseError("get_columns")) /\ UNCHANGED failed

\* line 161: the payload is written by the return statement's expression,
\* inside the with block
WriteNotFound ==
    /\ pc = "notfound"
    /\ WriteJson(404, [error |-> Qualified(sch, tab)])
    /\ pc' = "return"
    /\ UNCHANGED << route, sch, tab, col, num, validated, session, opened,
                    queries, cols, rows, counts, i, entry, failed, col_metrics,
                    data, exc >>

\* line 161: the return leaves the with block, which closes the connection
ReturnFromWith ==
    /\ pc = "return"
    /\ session' = "closed"
    /\ pc' = "done"
    /\ UNCHANGED << route, sch, tab, col, num, validated, opened, queries,
                    cols, rows, counts, i, entry, failed, col_metrics, data,
                    exc, status, body, openAtWrite >>

ColumnNames == [k \in 1..Len(cols) |-> cols[k].name]

\* line 162
RowStats ==
    /\ pc = "rowstats"
    /\ Execute("row_counts", <<sch, tab>> \o ColumnNames)
    /\ \/ /\ counts' = TableRowCountsAndDupes(rows, Len(cols))
          /\ col_metrics' = << >>
          /\ i' = 1
          /\ pc' = "nulls"
          /\ UNCHANGED << route, sch, tab, col, num, validated, session,
                          opened, cols, rows, entry, failed, data, exc, status,
                          body, openAtWrite >>
       \/ Raise(DatabaseError("row_counts")) /\ UNCHANGED failed

\* lines 165-166
NullCount ==
    /\ pc = "nulls"
    /\ Execute("null_count", <<sch, tab, cols[i].name>>)
    /\ \/ /\ entry' = [name |-> cols[i].name, data_type |-> cols[i].data_type,
                       nulls |-> ColumnNullCount(rows, i)]
          /\ pc' = "unique"
          /\ UNCHANGED << route, sch, tab, col, num, validated, session,
                          opened, cols, rows, counts, i, failed, col_metrics,
                          data, exc, status, body, openAtWrite >>
       \/ Raise(DatabaseError("null_count")) /\ UNCHANGED failed

\* line 174 and the loop's step
AppendEntry(e) ==
    /\ col_metrics' = Append(col_metrics, e)
    /\ IF i < Len(cols)
         THEN i' = i + 1 /\ pc' = "nulls"
         ELSE i' = i /\ pc' = "exit"

\* lines 167-169, and 174 when the type is not numeric
UniqueCount ==
    /\ pc = "unique"
    /\ Execute("unique_count", <<sch, tab, cols[i].name>>)
    /\ \/ /\ entry' = [name |-> entry.name, data_type |-> entry.data_type,
                       nulls |-> entry.nulls,
                       unique |-> ColumnUniqueCount(rows, i)]
          /\ IF IsNumericType(entry.data_type)
               THEN pc' = "numeric" /\ UNCHANGED << i, col_metrics >>
               ELSE AppendEntry(entry')
          /\ UNCHANGED << route, sch, tab, col, num, validated, session,
                          opened, cols, rows, counts, failed, data, exc,
                          status, body, openAtWrite >>
       \/ Raise(DatabaseError("unique_count")) /\ UNCHANGED failed

\* variant: no try block around _numeric_stats
NumericStatsStep_NoCatch ==
    /\ pc = "numeric"
    /\ Execute("numeric_stats", <<sch, tab, cols[i].name>>)
    /\ \/ /\ entry' = [name |-> entry.name, data_type |-> entry.data_type,
                       nulls |-> entry.nulls, unique |-> entry.unique,
                       numeric_stats |-> NumericStats(rows, i)]
          /\ AppendEntry(entry')
          /\ UNCHANGED << route, sch, tab, col, num, validated, session,
                          opened, cols, rows, counts, failed, data, exc,
                          status, body, openAtWrite >>
       \/ Raise(DatabaseError("numeric_stats")) /\ failed' = failed \cup {i}

\* lines 170-174: the try block around _numeric_stats
NumericStatsStep ==
    /\ pc = "numeric"
    /\ Execute("numeric_stats", <<sch, tab, cols[i].name>>)
    /\ \/ /\ entry' = [name |-> entry.name, data_type |-> entry.data_type,
                       nulls |-> entry.nulls, unique |-> entry.unique,
                       numeric_stats |-> NumericStats(rows, i)]
          /\ UNCHANGED failed
       \/ /\ entry' = [name |-> entry.name, data_type |-> entry.data_type,
                       nulls |-> entry.nulls, unique |-> entry.unique,
                       numeric_stats_error |-> DatabaseError("numeric_stats").msg]
          /\ failed' = failed \cup {i}
    /\ AppendEntry(entry')
    /\ UNCHANGED << route, sch, tab, col, num, validated, session, opened,
                    cols, rows, counts, data, exc, status, body, openAtWrite >>

\* line 187
RunHistogram(columns) ==
    /\ pc = "query" /\ route = "histogram"
    /\ Execute("histogram", <<sch, tab, col>>)
    /\ \/ \E rs \in columns :
            IF HistogramRaises(rs, num)
              THEN Raise(DatabaseError("histogram")) /\ UNCHANGED failed
              ELSE /\ rows' = rs
                   /\ data' = Histogram(rs, num)
                   /\ pc' = "exit"
                   /\ UNCHANGED << route, sch, tab, col, num, validated,
                                   session, opened, cols, counts, i, entry,
                                   failed, col_metrics, exc, status, body,
                                   openAtWrite >>
       \/ Raise(DatabaseError("histogram")) /\ UNCHANGED failed

Min(a, b) == IF a <= b THEN a ELSE b

\* lines 199-201: LIMIT raises on a negative count
RunPreview(rowlists) ==
    /\ pc = "query" /\ route = "preview"
    /\ Execute("preview", <<sch, tab>>)
    /\ \/ /\ num >= 0
          /\ \E rs \in rowlists :
                /\ rows' = rs
                /\ data' = SubSeq(rs, 1, Min(num, Len(rs)))
          /\ pc' = "exit"
          /\ UNCHANGED << route, sch, tab, col, num, validated, session,
                          opened, cols, counts, i, entry, failed, col_metrics,
                          exc, status, body, openAtWrite >>
       \/ Raise(DatabaseError("preview")) /\ UNCHANGED failed

\* lines 148, 175, 188, 202: the payload of a successful request
Payload ==
    IF route = "tables" THEN [tables |-> data]
    ELSE IF route = "summary" THEN
        [table |-> Qualified(sch, tab), row_stats |-> counts, columns |-> col_metrics]
    ELSE IF route = "histogram" THEN
        [table |-> Qualified(sch, tab), column |-> col, buckets |-> num,
         histogram |-> data]
    ELSE [rows |-> data]   \* the preview's column names are not modelled

WriteOk ==
    /\ pc = "write"
    /\ WriteJson(200, Payload)
    /\ pc' = "done"
    /\ UNCHANGED << route, sch, tab, col, num, validated, session, opened,
                    queries, cols, rows, counts, i, entry, failed, col_metrics,
                    data, exc >>

\* lines 206-207
Except ==
    /\ pc = "except"
    /\ WriteJson(500, [error |-> exc])
    /\ pc' = "done"
    /\ UNCHANGED << route, sch, tab, col, num, validated, session, opened,
                    queries, cols, rows, counts, i, entry, failed, col_metrics,
                    data, exc >>

Handle ==
    \/ Request \/ Health \/ UnknownPath \/ Connect \/ ExitWith \/ ListTables
    \/ WriteNotFound \/ ReturnFromWith \/ RowStats \/ NullCount \/ UniqueCount
    \/ NumericStatsStep \/ WriteOk \/ Except

\* profiling runs: a few requests, every small table
Next ==
    \/ Handle
    \/ ParseSummary(RequestTables)
    \/ ParseHistogram(RequestTables, RequestColumns, NumArgs(MaxBuckets))
    \/ ParsePreview(RequestTables, NumArgs(MaxRows))
    \/ GetColumns(ProfiledTables)
    \/ RunHistogram(HistColumns)
    \/ RunPreview(PreviewRows)

Spec == Init /\ [][Next]_vars

\* validation runs: every short string as a name, a few tables
NextIdent ==
    \/ Handle
    \/ ParseSummary(AnyName)
    \/ ParseHistogram(AnyName, AnyName, FewArgs \cup {[kind |-> "int", val |-> 2]})
    \/ ParsePreview(AnyName, FewArgs)
    \/ GetColumns(FewTables)
    \/ RunHistogram(FewColumns)
    \/ RunPreview(FewColumns)

SpecIdent == Init /\ [][NextIdent]_vars

----------------------------------------------------------------------------
(* The claims *)

\* the identifier grammar [A-Za-z_][A-Za-z0-9_]* over the whole string
MatchesGrammar(name) ==
    /\ Len(name) >= 1
    /\ name[1] \in LowerLetters \cup UpperLetters \cup {"_"}
    /\ \A k \in 2..Len(name) :
          name[k] \in LowerLetters \cup UpperLetters \cup Digits \cup {"_"}

NamedRoutes == {"summary", "histogram", "preview"}

\* C1: a request to /api/summary, /api/histogram or /api/preview whose
\* schema, table or column part does not match the identifier grammar ends
\* without a database session opened and without a query issued: whenever a
\* session has been opened or a query issued, each part matches the grammar.
C1_BadNameOpensNoSession ==
    (route \in NamedRoutes /\ exc = NoExc /\ (session # "none" \/ queries # << >>))
        => /\ MatchesGrammar(sch)
           /\ MatchesGrammar(tab)
           /\ (route = "histogram" => MatchesGrammar(col))

IdentifierMessages == {"Empty identifier", "Invalid identifier"}

\* C9: a request whose schema, table or column name is malformed is answered
\* with a 4xx status, not a 5xx one.
C9_BadNameIs4xx ==
    (status # 0 /\ exc.type = "ValueError" /\ exc.msg \in IdentifierMessages)
        => status \in 400..499

\* C2: every name interpolated into the text of an issued statement has
\* passed the identifier validator, the catalog's column names included.
C2_InterpolatedNamesValidated ==
    \A q \in 1..Len(queries) :
        \A k \in 1..Len(queries[q].idents) : queries[q].idents[k] \in validated

Has(e, key) == key \in DOMAIN e

\* one entry per catalog column, in ordinal order, each with its counts
ColumnsComplete(columns) ==
    /\ Len(columns) = Len(cols)
    /\ \A k \in 1..Len(cols) :
          /\ columns[k].name = cols[k].name
          /\ Has(columns[k], "nulls") /\ columns[k].nulls \in 0..Len(rows)
          /\ Has(columns[k], "unique") /\ columns[k].unique \in 0..Len(rows)
          /\ (k \in failed => Has(columns[k], "numeric_stats_error"))

ClassifiedNumeric == {TyInteger, TyDouble}

\* C4: in every entry of a summary, numeric_stats is present iff the type is
\* classified numeric and the statistics query succeeded, numeric_stats_error
\* iff it is classified numeric and the query failed, never both; for a type
\* not classified numeric no numeric-statistics query is issued.
C4_NumericFieldsFollowType ==
    (route = "summary" /\ exc = NoExc)
        => /\ \A k \in 1..Len(col_metrics) :
                LET e == col_metrics[k]
                    numeric == e.data_type \in ClassifiedNumeric
                IN  /\ Has(e, "numeric_stats") <=> (numeric /\ k \notin failed)
                    /\ Has(e, "numeric_stats_error") <=> (numeric /\ k \in failed)
                    /\ ~(Has(e, "numeric_stats") /\ Has(e, "numeric_stats_error"))
           /\ \A q \in 1..Len(queries) :
                queries[q].stmt = "numeric_stats" =>
                    \E k \in 1..Len(cols) :
                        /\ cols[k].name = queries[q].idents[3]
                        /\ cols[k].data_type \in ClassifiedNumeric
           /\ (status = 200 => body.columns = col_metrics)

C4_Witness ==
    /\ route = "summary" /\ status = 200
    /\ Len(body.columns) = 2
    /\ body.columns[1].data_type = TyDouble
    /\ Has(body.columns[1], "numeric_stats")
    /\ body.columns[2].data_type = TyText
    /\ ~Has(body.columns[2], "numeric_stats")
    /\ ~Has(body.columns[2], "numeric_stats_error")

\* C5: when the catalog returns no column for a valid table reference, the
\* summary answers 404 and issues no statement after the catalog query.
C5_NoColumnsIs404 ==
    (route = "summary" /\ exc = NoExc /\ Len(queries) >= 1 /\ cols = << >>)
        => /\ Len(queries) = 1
           /\ queries[1].stmt = "get_columns"
           /\ status \in {0, 404}
           /\ (pc = "done" => status = 404)

C5_Witness ==
    /\ route = "summary" /\ pc = "done" /\ exc = NoExc
    /\ cols = << >> /\ Len(queries) = 1 /\ status = 404

\* C6: the row statistics of a summary satisfy
\* 0 <= duplicate_rows <= total_rows, and duplicate_pct is
\* duplicate_rows / total_rows when total_rows > 0 and 0 otherwise, so it
\* lies in [0, 1].
C6_RowStatsBounds ==
    (route = "summary" /\ status = 200)
        => LET c == body.row_stats
               p == c.duplicate_pct
           IN  /\ c.total_rows = Len(rows)
               /\ 0 <= c.duplicate_rows /\ c.duplicate_rows <= c.total_rows
               /\ p[2] > 0
               /\ (c.total_rows > 0 => p[1] * c.total_rows = c.duplicate_rows * p[2])
               /\ (c.total_rows = 0 => p[1] = 0)
               /\ 0 <= p[1] /\ p[1] <= p[2]

C6_Witness ==
    /\ route = "summary" /\ status = 200
    /\ body.row_stats.total_rows = 2
    /\ body.row_stats.duplicate_rows = 1
    /\ body.row_stats.duplicate_pct = <<1, 2>>
    /\ \E r \in 1..Len(rows) : \E k \in 1..Len(cols) : rows[r][k] = NULL

\* floor((v - min) / ((max - min) / buckets)) + 1, the maximum in the last
ClampedIndex(v, mn, mx, buckets) ==
    IF v = mx THEN buckets ELSE ((v - mn) * buckets) \div (mx - mn) + 1

\* C7: for a positive bucket count the histogram puts each non-null value v
\* in bucket floor((v - min) / ((max - min) / buckets)) + 1, clamped so that
\* the maximum falls in the last bucket: every index lies in 1..buckets.
C7_BucketIndexInRange ==
    (route = "histogram" /\ status = 200 /\ num > 0)
        => /\ \A j \in 1..Len(data) : data[j].bucket \in 1..num
           /\ \A r \in 1..Len(rows) :
                rows[r][1] # NULL =>
                    \E j \in 1..Len(data) :
                        data[j].bucket =
                            ClampedIndex(rows[r][1], data[j].min, data[j].max, num)

RECURSIVE SumCounts(_)
SumCounts(h) == IF h = << >> THEN 0 ELSE Head(h).count + SumCounts(Tail(h))

NonNullValues == {rows[r][1] : r \in {x \in 1..Len(rows) : rows[x][1] # NULL}}

\* C8: the counts of the returned buckets sum to the number of non-null
\* values of the column, no bucket has count 0, the bucket indexes ascend
\* strictly, and every bucket reports the column-wide minimum and maximum.
C8_HistogramCounts ==
    (route = "histogram" /\ status = 200)
        => LET h == body.histogram IN
           /\ SumCounts(h) = Cardinality({r \in 1..Len(rows) : rows[r][1] # NULL})
           /\ \A j \in 1..Len(h) : h[j].count > 0
           /\ \A j \in 1..(Len(h) - 1) : h[j].bucket < h[j+1].bucket
           /\ \A j \in 1..Len(h) :
                /\ h[j].min \in NonNullValues /\ h[j].max \in NonNullValues
                /\ \A v \in NonNullValues : h[j].min <= v /\ v <= h[j].max

C8_Witness ==
    /\ route = "histogram" /\ status = 200
    /\ Len(rows) = 3
    /\ \E r \in 1..3 : rows[r][1] = NULL
    /\ Len(body.histogram) = 2
    /\ body.histogram[2].bucket > body.histogram[1].bucket + 1
    /\ SumCounts(body.histogram) = 2

\* C10 as stated: at most one session is open per request, none is open
\* when the handling has ended, and none is open once the response has been
\* written.
C10_NoSessionOnceWritten ==
    /\ opened <= 1
    /\ (session = "open" => opened = 1)
    /\ (pc = "done" => session # "open")
    /\ (status # 0 => session # "open")

\* C10 as amended: at most one session is open per request and none is open
\* when the handling has ended; the response is written after the session
\* is closed, except the 404 of a summary, which is written while the
\* session is open and followed at once by its release.
C10_SessionReleasedAtEnd ==
    /\ opened <= 1
    /\ (session = "open" => opened = 1)
    /\ (pc = "done" => session # "open")
    /\ (pc = "done" /\ opened = 1 => session = "closed")
    /\ ((status # 0 /\ session = "open")
            => (route = "summary" /\ status = 404 /\ pc = "return"))
    /\ (openAtWrite => (route = "summary" /\ status = 404))

C10_Witness ==
    /\ pc = "done" /\ route = "summary" /\ status = 404
    /\ openAtWrite /\ session = "closed" /\ opened = 1

====
